---- MODULE Spec2Model ----
(***************************************************************************)
(* is_sorted.py: linear, early-exit checks that a sequence is sorted.      *)
(*                                                                         *)
(* The module binds the name `pairwise` once, at import, either to         *)
(* itertools.pairwise or to the backport _pairwise.  Each public function  *)
(* is a call that builds a frame and is then advanced one iteration of its *)
(* loop at a time until it returns True, returns False or raises           *)
(* TypeError.                                                              *)
(***************************************************************************)
EXTENDS Integers, Sequences, FiniteSets

VARIABLES pairwise, frame

vars == <<pairwise, frame>>

\* Bounds of the explored inputs.
MaxLen == 3
MaxInt == 2
MaxStr == 1

(***************************************************************************)
(* Python values.  Ints and strs are ordered within their own type, v is   *)
(* the int itself or the rank of the string; None supports no ordering     *)
(* comparison at all, not even with itself.                                *)
(***************************************************************************)
PyInt(n) == [t |-> "int", v |-> n]
PyStr(n) == [t |-> "str", v |-> n]
None == [t |-> "NoneType", v |-> 0]

Values == {PyInt(n) : n \in 0..MaxInt} \cup {PyStr(n) : n \in 0..MaxStr} \cup {None}

Lists == UNION {[1..n -> Values] : n \in 0..MaxLen}

\* x < y, x <= y, x > y, x >= y are defined for x, y: anything else raises TypeError.
Comparable(x, y) == x.t = y.t /\ x.t # "NoneType"

\* The key arguments a caller passes: "None" is the default key=None.
Keys == {"None", "none_as_zero", "zero_as_none", "flip"}

\* key(x) for the key function named k.
apply_key(k, x) ==
    CASE k = "None" -> x
      [] k = "none_as_zero" -> IF x = None THEN PyInt(0) ELSE x
      [] k = "zero_as_none" -> IF x = PyInt(0) THEN None ELSE x
      [] k = "flip" -> IF x.t = "int" THEN PyInt(MaxInt - x.v) ELSE x

Bool(b) == IF b THEN "True" ELSE "False"

\* Fault variant of compare_ascending: the branches of the conditional exchanged.
compare_ascending_swapped(strict, x, y) ==
    IF ~Comparable(x, y) THEN "TypeError"
    ELSE IF strict THEN Bool(x.v <= y.v) ELSE Bool(x.v < y.v)

\* Fault variant of compare_ascending: strict ignored.
compare_ascending_nonstrict(strict, x, y) ==
    IF ~Comparable(x, y) THEN "TypeError" ELSE Bool(x.v <= y.v)

\* compare = lambda x, y: x < y if strict else x <= y
compare_ascending(strict, x, y) ==
    IF ~Comparable(x, y) THEN "TypeError"
    ELSE IF strict THEN Bool(x.v < y.v) ELSE Bool(x.v <= y.v)

\* Fault variant of compare_descending: the branches of the conditional exchanged.
compare_descending_swapped(strict, x, y) ==
    IF ~Comparable(x, y) THEN "TypeError"
    ELSE IF strict THEN Bool(x.v >= y.v) ELSE Bool(x.v > y.v)

\* compare = lambda x, y: x > y if strict else x >= y
compare_descending(strict, x, y) ==
    IF ~Comparable(x, y) THEN "TypeError"
    ELSE IF strict THEN Bool(x.v > y.v) ELSE Bool(x.v >= y.v)

\* The compare lambda of the function fn.
compare(fn, strict, x, y) ==
    IF fn = "is_sorted_descending"
    THEN compare_descending(strict, x, y)
    ELSE compare_ascending(strict, x, y)

\* itertools.pairwise(s), Python 3.10+: (s[0], s[1]), (s[1], s[2]), ...
itertools_pairwise(s) ==
    [j \in 1..(IF Len(s) = 0 THEN 0 ELSE Len(s) - 1) |-> <<s[j], s[j + 1]>>]

\* The backport: a = next(it, None); if a is None: return; for b in it: yield a, b; a = b
_pairwise(s) ==
    LET a == IF Len(s) = 0 THEN None ELSE s[1]
    IN IF a = None THEN <<>>
       ELSE [j \in 1..(Len(s) - 1) |-> <<s[j], s[j + 1]>>]

\* The pairs the name `pairwise` yields under the binding b.
pairwise_of(b, s) == IF b = "fallback" THEN _pairwise(s) ELSE itertools_pairwise(s)

\* zip(lst, lst[1:])
zip_pairs(s) == [j \in 1..(IF Len(s) = 0 THEN 0 ELSE Len(s) - 1) |-> <<s[j], s[j + 1]>>]

\* (lst[i], lst[i + 1]) for i in range(len(lst) - 1)
range_pairs(s) == [j \in 1..(IF Len(s) = 0 THEN 0 ELSE Len(s) - 1) |-> <<s[j], s[j + 1]>>]

\* The functions that take a key and iterate over pairwise(lst).
Keyed == {"is_sorted_ascending", "is_sorted_descending"}

Idle == [pc |-> "idle", fn |-> "", lst |-> <<>>, strict |-> FALSE, key |-> "None",
         it |-> <<>>, i |-> 0, ncmp |-> 0, keylog |-> <<>>, result |-> "None"]

\* The frame of a call fn(lst, strict=strict, key=key) under the binding b of pairwise,
\* before the first iteration of its loop.
Call(b, fn, lst, strict, key) ==
    [pc |-> "scan", fn |-> fn, lst |-> lst, strict |-> strict, key |-> key,
     it |-> CASE fn \in Keyed -> pairwise_of(b, lst)
              [] fn = "is_sorted_ascending_zip" -> zip_pairs(lst)
              [] fn = "is_sorted_ascending_range" -> range_pairs(lst)
              [] OTHER -> <<>>,
     i |-> 0, ncmp |-> 0, keylog |-> <<>>, result |-> "None"]

\* Fault variant of all_next: any() in place of all().
all_next_any(f) ==
    IF f.it = <<>>
    THEN [f EXCEPT !.pc = "done", !.result = "False"]
    ELSE LET x == Head(f.it)[1]
             y == Head(f.it)[2]
             c == compare(f.fn, f.strict, apply_key(f.key, x), apply_key(f.key, y))
             g == [f EXCEPT !.ncmp = @ + 1,
                            !.keylog = IF f.fn \in Keyed THEN @ \o <<x, y>> ELSE @]
         IN CASE c = "True" -> [g EXCEPT !.pc = "done", !.result = "True"]
              [] c = "False" -> [g EXCEPT !.it = Tail(@)]
              [] OTHER -> [g EXCEPT !.pc = "done", !.result = "TypeError"]

\* Fault variant of all_next: every pair is compared before the result is returned,
\* as all([...]) over a list would.
all_next_exhaustive(f) ==
    IF f.it = <<>>
    THEN [f EXCEPT !.pc = "done", !.result = IF @ = "False" THEN "False" ELSE "True"]
    ELSE LET x == Head(f.it)[1]
             y == Head(f.it)[2]
             c == compare(f.fn, f.strict, apply_key(f.key, x), apply_key(f.key, y))
             g == [f EXCEPT !.ncmp = @ + 1,
                            !.keylog = IF f.fn \in Keyed THEN @ \o <<x, y>> ELSE @]
         IN CASE c = "True" -> [g EXCEPT !.it = Tail(@)]
              [] c = "False" -> [g EXCEPT !.it = Tail(@), !.result = "False"]
              [] OTHER -> [g EXCEPT !.pc = "done", !.result = "TypeError"]

\* Fault variant of all_next: a TypeError of the comparison is caught and read as False.
all_next_swallow(f) ==
    IF f.it = <<>>
    THEN [f EXCEPT !.pc = "done", !.result = "True"]
    ELSE LET x == Head(f.it)[1]
             y == Head(f.it)[2]
             c == compare(f.fn, f.strict, apply_key(f.key, x), apply_key(f.key, y))
             g == [f EXCEPT !.ncmp = @ + 1,
                            !.keylog = IF f.fn \in Keyed THEN @ \o <<x, y>> ELSE @]
         IN CASE c = "True" -> [g EXCEPT !.it = Tail(@)]
              [] OTHER -> [g EXCEPT !.pc = "done", !.result = "False"]

\* One iteration of all(compare(key(x), key(y)) for x, y in it): the generator takes
\* the next pair, applies key to both elements and compares; all() returns False at
\* the first false value, True when the generator is exhausted, and an exception
\* raised by the comparison leaves the call.
all_next(f) ==
    IF f.it = <<>>
    THEN [f EXCEPT !.pc = "done", !.result = "True"]
    ELSE LET x == Head(f.it)[1]
             y == Head(f.it)[2]
             c == compare(f.fn, f.strict, apply_key(f.key, x), apply_key(f.key, y))
             g == [f EXCEPT !.ncmp = @ + 1,
                            !.keylog = IF f.fn \in Keyed THEN @ \o <<x, y>> ELSE @]
         IN CASE c = "True" -> [g EXCEPT !.it = Tail(@)]
              [] c = "False" -> [g EXCEPT !.pc = "done", !.result = "False"]
              [] OTHER -> [g EXCEPT !.pc = "done", !.result = "TypeError"]

\* One iteration of: for i in range(len(lst) - 1): if not compare(lst[i], lst[i + 1]):
\* return False; and return True after the loop.  f.i counts from 0 as i does.
loop_next(f) ==
    IF f.i >= Len(f.lst) - 1
    THEN [f EXCEPT !.pc = "done", !.result = "True"]
    ELSE LET c == compare(f.fn, f.strict, f.lst[f.i + 1], f.lst[f.i + 2])
             g == [f EXCEPT !.ncmp = @ + 1]
         IN CASE c = "True" -> [g EXCEPT !.i = @ + 1]
              [] c = "False" -> [g EXCEPT !.pc = "done", !.result = "False"]
              [] OTHER -> [g EXCEPT !.pc = "done", !.result = "TypeError"]

step(f) == IF f.fn = "is_sorted_ascending_loop" THEN loop_next(f) ELSE all_next(f)

\* The frame a call ends in.
RECURSIVE Run(_)
Run(f) == IF f.pc # "scan" THEN f ELSE Run(step(f))

\* The outcome of fn(lst, strict=strict, key=key): "True", "False" or "TypeError".
Outcome(b, fn, lst, strict, key) == Run(Call(b, fn, lst, strict, key)).result

(***************************************************************************)
(* The program.                                                            *)
(***************************************************************************)
\* Import: try: from itertools import pairwise; except ImportError: pairwise = _pairwise
Init ==
    /\ pairwise \in {"builtin", "fallback"}
    /\ frame = Idle

is_sorted_ascending ==
    /\ frame.pc = "idle"
    /\ \E lst \in Lists, strict \in BOOLEAN, key \in Keys :
          frame' = Call(pairwise, "is_sorted_ascending", lst, strict, key)
    /\ UNCHANGED pairwise

is_sorted_descending ==
    /\ frame.pc = "idle"
    /\ \E lst \in Lists, strict \in BOOLEAN, key \in Keys :
          frame' = Call(pairwise, "is_sorted_descending", lst, strict, key)
    /\ UNCHANGED pairwise

is_sorted_ascending_zip ==
    /\ frame.pc = "idle"
    /\ \E lst \in Lists, strict \in BOOLEAN :
          frame' = Call(pairwise, "is_sorted_ascending_zip", lst, strict, "None")
    /\ UNCHANGED pairwise

is_sorted_ascending_loop ==
    /\ frame.pc = "idle"
    /\ \E lst \in Lists, strict \in BOOLEAN :
          frame' = Call(pairwise, "is_sorted_ascending_loop", lst, strict, "None")
    /\ UNCHANGED pairwise

is_sorted_ascending_range ==
    /\ frame.pc = "idle"
    /\ \E lst \in Lists, strict \in BOOLEAN :
          frame' = Call(pairwise, "is_sorted_ascending_range", lst, strict, "None")
    /\ UNCHANGED pairwise

\* The next iteration of a running all(...).
AllStep ==
    /\ frame.pc = "scan"
    /\ frame.fn # "is_sorted_ascending_loop"
    /\ frame' = all_next(frame)
    /\ UNCHANGED pairwise

\* The next iteration of the running for loop.
LoopStep ==
    /\ frame.pc = "scan"
    /\ frame.fn = "is_sorted_ascending_loop"
    /\ frame' = loop_next(frame)
    /\ UNCHANGED pairwise

\* The caller takes the outcome; the next call is independent of this one.
Return ==
    /\ frame.pc = "done"
    /\ frame' = Idle
    /\ UNCHANGED pairwise

Next ==
    \/ is_sorted_ascending
    \/ is_sorted_descending
    \/ is_sorted_ascending_zip
    \/ is_sorted_ascending_loop
    \/ is_sorted_ascending_range
    \/ AllStep
    \/ LoopStep
    \/ Return

Spec == Init /\ [][Next]_vars

(***************************************************************************)
(* Vocabulary of the properties.                                           *)
(***************************************************************************)
Done == frame.pc = "done"

\* The projected keys of the call's sequence.
KeysOf(f) == [j \in 1..Len(f.lst) |-> apply_key(f.key, f.lst[j])]

MutuallyComparable(s) == \A i, j \in 1..Len(s) : i # j => Comparable(s[i], s[j])

\* The relation a mode asks of an adjacent pair: <=, <, >=, >.
Relation(fn, strict, x, y) ==
    /\ Comparable(x, y)
    /\ IF fn = "is_sorted_descending"
       THEN (IF strict THEN x.v > y.v ELSE x.v >= y.v)
       ELSE (IF strict THEN x.v < y.v ELSE x.v <= y.v)

Reverse(s) == [j \in 1..Len(s) |-> s[Len(s) + 1 - j]]

NumPairs(s) == IF Len(s) = 0 THEN 0 ELSE Len(s) - 1

\* The consecutive overlapping pairs of s, in order: n - 1 of them for n elements.
AdjacentPairs(s) == [j \in 1..NumPairs(s) |-> <<s[j], s[j + 1]>>]

\* The iterations a running call has left at most.
Remaining(f) ==
    IF f.fn = "is_sorted_ascending_loop" THEN NumPairs(f.lst) - f.i ELSE Len(f.it)

\* C1: for a sequence whose projected keys are mutually comparable, the ascending and
\* descending checks return True exactly when every adjacent pair of keys satisfies
\* the mode's relation, and False otherwise.
C1_AdjacentPairsDecide ==
    (Done /\ frame.fn \in Keyed /\ MutuallyComparable(KeysOf(frame)))
        => frame.result = Bool(\A j \in 1..NumPairs(frame.lst) :
                                 Relation(frame.fn, frame.strict,
                                          KeysOf(frame)[j], KeysOf(frame)[j + 1]))

\* C2 as stated: for any sequence S and strict flag s, is_sorted_ascending(S, strict=s)
\* has the outcome of is_sorted_descending(reverse(S), strict=s).
C2_ReverseAnySequence ==
    (Done /\ frame.fn = "is_sorted_ascending" /\ frame.key = "None")
        => frame.result = Outcome(pairwise, "is_sorted_descending", Reverse(frame.lst),
                                  frame.strict, "None")

\* C2 amended: for any sequence S whose elements are mutually comparable and any
\* strict flag s, is_sorted_ascending(S, strict=s) returns the boolean that
\* is_sorted_descending(reverse(S), strict=s) returns.
C2_ReverseComparable ==
    (Done /\ frame.fn = "is_sorted_ascending" /\ frame.key = "None"
          /\ MutuallyComparable(frame.lst))
        => /\ frame.result \in {"True", "False"}
           /\ frame.result = Outcome(pairwise, "is_sorted_descending", Reverse(frame.lst),
                                     frame.strict, "None")

C2_Witness ==
    /\ Done /\ frame.fn = "is_sorted_ascending" /\ frame.key = "None"
    /\ MutuallyComparable(frame.lst) /\ Len(frame.lst) = 3
    /\ frame.lst[1] = frame.lst[2] /\ ~frame.strict /\ frame.result = "True"

\* C3 as stated: if two projected keys of the sequence are not mutually comparable,
\* the call ends in a comparison error and returns no boolean.
C3_IncomparableAlwaysRaises ==
    (Done /\ frame.fn \in Keyed /\ ~MutuallyComparable(KeysOf(frame)))
        => frame.result = "TypeError"

\* C3 amended: the call ends in a comparison error, and returns no boolean, exactly
\* when among the pairs the pair iterator yields, taken left to right, a pair of
\* incomparable keys comes before any pair that fails the relation; a failing pair
\* that comes first makes the call return False although later keys are incomparable.
C3_RaisesIffReached ==
    (Done /\ frame.fn \in Keyed)
        => LET ps == pairwise_of(pairwise, frame.lst)
               kx(p) == apply_key(frame.key, ps[p][1])
               ky(p) == apply_key(frame.key, ps[p][2])
           IN frame.result = "TypeError"
                <=> \E p \in 1..Len(ps) :
                        /\ ~Comparable(kx(p), ky(p))
                        /\ \A q \in 1..(p - 1) :
                              Relation(frame.fn, frame.strict, kx(q), ky(q))

C3_Witness ==
    /\ Done /\ frame.fn \in Keyed /\ frame.result = "TypeError" /\ frame.ncmp = 2
    /\ frame.key # "None"

\* C4 as stated: for every sequence with at least one adjacent equal pair, the strict
\* ascending check, and the strict descending check, returns False.
C4_StrictRejectsAnyDuplicate ==
    (Done /\ frame.fn \in Keyed /\ frame.strict /\ frame.key = "None"
          /\ \E j \in 1..NumPairs(frame.lst) : frame.lst[j] = frame.lst[j + 1])
        => frame.result = "False"

\* C4 amended: for every sequence of mutually comparable elements with at least one
\* adjacent equal pair, the strict ascending check, and the strict descending check,
\* returns False.
C4_StrictRejectsComparableDuplicate ==
    (Done /\ frame.fn \in Keyed /\ frame.strict /\ frame.key = "None"
          /\ MutuallyComparable(frame.lst)
          /\ \E j \in 1..NumPairs(frame.lst) : frame.lst[j] = frame.lst[j + 1])
        => frame.result = "False"

C4_Witness ==
    /\ Done /\ frame.fn = "is_sorted_ascending" /\ frame.strict /\ frame.key = "None"
    /\ Len(frame.lst) = 3 /\ MutuallyComparable(frame.lst)
    /\ frame.lst[1].v < frame.lst[2].v /\ frame.lst[2] = frame.lst[3]
    /\ frame.result = "False"

\* C5: for a sequence of length 0 or 1 the ascending and descending checks return
\* True, strict or not, whatever the element and the key function: nothing is
\* compared and the key function is not applied.
C5_ShortSequencesSorted ==
    (Done /\ frame.fn \in Keyed /\ Len(frame.lst) <= 1)
        => frame.result = "True" /\ frame.ncmp = 0 /\ frame.keylog = <<>>

C5_Witness ==
    /\ Done /\ frame.fn = "is_sorted_descending" /\ frame.lst = <<None>>
    /\ frame.strict /\ frame.key = "zero_as_none" /\ frame.result = "True"

\* C6: with a key function k the outcome is that of the same check, without key, on
\* the sequence of projected values map(k, S).
C6_KeyIsProjection ==
    (Done /\ frame.fn \in Keyed /\ frame.key # "None")
        => frame.result = Outcome(pairwise, frame.fn, KeysOf(frame), frame.strict, "None")

\* C7: with no key function, is_sorted_ascending_zip, is_sorted_ascending_loop and
\* is_sorted_ascending_range end as is_sorted_ascending does on the same sequence and
\* strict flag: True, False or comparison error.
C7_AlternativesAgree ==
    (Done /\ frame.fn \in {"is_sorted_ascending_zip", "is_sorted_ascending_loop",
                           "is_sorted_ascending_range"})
        => frame.result = Outcome(pairwise, "is_sorted_ascending", frame.lst,
                                  frame.strict, "None")

\* The comparisons made so far are those of the first ncmp adjacent pairs, in order,
\* all but the last one satisfied, and the key function was applied to exactly the
\* elements of those pairs.
C8_LeftToRight ==
    frame.pc # "idle" =>
        /\ frame.ncmp <= NumPairs(frame.lst)
        /\ frame.ncmp + (IF frame.pc = "scan" THEN Remaining(frame) ELSE 0)
              <= NumPairs(frame.lst)
        /\ \A q \in 1..(frame.ncmp - 1) :
              Relation(frame.fn, frame.strict,
                       KeysOf(frame)[q], KeysOf(frame)[q + 1])
        /\ frame.fn \in Keyed =>
              /\ Len(frame.keylog) = 2 * frame.ncmp
              /\ \A q \in 1..frame.ncmp :
                    /\ frame.keylog[2 * q - 1] = frame.lst[q]
                    /\ frame.keylog[2 * q] = frame.lst[q + 1]

\* A call that returns False stopped at the first adjacent pair that fails the relation.
C8_StopsAtFirstFailure ==
    (Done /\ frame.result = "False") =>
        /\ frame.ncmp >= 1
        /\ Comparable(KeysOf(frame)[frame.ncmp], KeysOf(frame)[frame.ncmp + 1])
        /\ ~Relation(frame.fn, frame.strict,
                     KeysOf(frame)[frame.ncmp], KeysOf(frame)[frame.ncmp + 1])

\* Every iteration ends the call or leaves fewer iterations to run, and a call that
\* has ended compares nothing more.
C8_Progress ==
    /\ frame.pc = "scan" =>
          \/ frame'.pc = "done"
          \/ frame'.pc = "scan" /\ Remaining(frame') < Remaining(frame)
    /\ frame.pc = "done" => frame'.pc = "idle"

\* C8: the scan compares adjacent pairs left to right and stops at the first pair that
\* fails the relation: it returns False there, compares no later pair and applies the
\* key function to no element beyond that pair; it ends after at most n-1 comparisons.
C8_EarlyExit == [](C8_LeftToRight /\ C8_StopsAtFirstFailure) /\ [][C8_Progress]_vars

C8_Witness ==
    /\ Done /\ frame.fn = "is_sorted_ascending" /\ frame.key = "flip"
    /\ Len(frame.lst) = 3 /\ frame.result = "False" /\ frame.ncmp = 1
    /\ frame.keylog = <<frame.lst[1], frame.lst[2]>>
    /\ ~Comparable(frame.lst[2], frame.lst[3])

\* C9: _pairwise yields, for every finite iterable, exactly its consecutive
\* overlapping pairs in order, so the checks end the same way under the built-in
\* pairwise and under the backport.
C9_BackportYieldsAllPairs ==
    frame.pc # "idle" =>
        /\ _pairwise(frame.lst) = AdjacentPairs(frame.lst)
        /\ frame.fn \in Keyed =>
              Outcome("fallback", frame.fn, frame.lst, frame.strict, frame.key)
                = Outcome("builtin", frame.fn, frame.lst, frame.strict, frame.key)

\* C10: a strict check that returns True implies that the non-strict check on the same
\* sequence and key returns True, and the two modes end differently only on a sequence
\* with an adjacent pair of equal keys.
C10_StrictStrengthens ==
    (Done /\ frame.fn \in Keyed)
        => LET s == Outcome(pairwise, frame.fn, frame.lst, TRUE, frame.key)
               n == Outcome(pairwise, frame.fn, frame.lst, FALSE, frame.key)
           IN /\ frame.result = (IF frame.strict THEN s ELSE n)
              /\ s = "True" => n = "True"
              /\ s # n => \E j \in 1..NumPairs(frame.lst) :
                              KeysOf(frame)[j] = KeysOf(frame)[j + 1]

C10_Witness ==
    /\ Done /\ frame.fn = "is_sorted_descending" /\ frame.strict /\ frame.key = "flip"
    /\ frame.result = "False"
    /\ Outcome(pairwise, frame.fn, frame.lst, FALSE, frame.key) = "True"

====
